---- MODULE Spec2Model ----
(***************************************************************************)
(* The synthetic case generation pipeline: the 25-case batch orchestrator  *)
(* (generate_batch_25.main) and the configurable generator                 *)
(* (generate_synthetic.main / validate_and_save), run one or more times    *)
(* against the same output directories; and, each exercised on its own,   *)
(* the schema validator (SyntheticCaseOutput.model_validate), the seed     *)
(* indexer (ingest_seeds.py) with the retrieval that reads its collection, *)
(* the prompt assembly (build_prompt), the bulk upload of a batch          *)
(* directory (upload_cases.main), the annotation app (streamlit_app.main    *)
(* with sign_in, sign_out and the cached Supabase client) run by two        *)
(* browser sessions, and the saving of a session's answers                 *)
(* (_save_answers).                                                        *)
(*                                                                         *)
(* Strings that the code inspects are sequences: an error message is a     *)
(* sequence of characters, a generator response is a sequence of tokens    *)
(* ("bt" for one backtick, the fence tag, "nl" for a newline, a JSON body).  *)
(***************************************************************************)
EXTENDS Integers, Sequences, FiniteSets, TLC

\* ------------------------------------------------------------------ bounds
\* range(25) of the batch orchestrator, scaled down
BatchCases == 2
\* largest BATCH_SIZE the environment sets for generate_synthetic
MaxBatch == 2
\* runs of a script against the same output directory
MaxRuns == 2
\* last second the clock reaches (datetime.now(), one-second resolution)
MaxClock == 1

\* files in ./data/seed_cases, and the largest n a retrieval asks for
MaxFiles == 2
MaxN == 2
\* largest complexity_score a seed case declares
MaxComplexity == 6
\* longest timeline, most reasoning triples and most options of a record handed to
\* the validator
MaxLog == 2
MaxTriples == 1
MaxOptions == 4
\* most events, triples and options of the case an evaluation session annotates
MaxAnswers == 1

\* ------------------------------------------------------- program constants
\* for attempt in range(3)
AttemptCap == 3

\* ---------------------------------------------------------------- strings
Upper == <<"A","B","C","D","E","F","G","H","I","J","K","L","M",
           "N","O","P","Q","R","S","T","U","V","W","X","Y","Z">>
Lower == <<"a","b","c","d","e","f","g","h","i","j","k","l","m",
           "n","o","p","q","r","s","t","u","v","w","x","y","z">>

\* str.lower() on one character
lower_char(c) ==
    IF \E k \in 1..26 : Upper[k] = c
    THEN Lower[CHOOSE k \in 1..26 : Upper[k] = c]
    ELSE c

\* str.lower()
str_lower(s) == [k \in 1..Len(s) |-> lower_char(s[k])]

\* sub in s
Contains(s, sub) ==
    \E k \in 0..(Len(s) - Len(sub)) : SubSeq(s, k + 1, k + Len(sub)) = sub

DigitChar == <<"0","1","2","3","4","5","6","7","8","9">>

\* str(n) for a natural number
RECURSIVE Digits(_)
Digits(n) ==
    IF n < 10 THEN <<DigitChar[n + 1]>>
    ELSE Digits(n \div 10) \o <<DigitChar[(n % 10) + 1]>>

Whitespace == {"nl", "sp"}

RECURSIVE lstrip(_)
lstrip(s) == IF s # <<>> /\ Head(s) \in Whitespace THEN lstrip(Tail(s)) ELSE s

RECURSIVE rstrip(_)
rstrip(s) ==
    IF s # <<>> /\ s[Len(s)] \in Whitespace
    THEN rstrip(SubSeq(s, 1, Len(s) - 1))
    ELSE s

\* str.strip()
strip(s) == rstrip(lstrip(s))

\* str.removeprefix(p)
removeprefix(s, p) ==
    IF Len(s) >= Len(p) /\ SubSeq(s, 1, Len(p)) = p
    THEN SubSeq(s, Len(p) + 1, Len(s))
    ELSE s

\* str.removesuffix(p)
removesuffix(s, p) ==
    IF Len(s) >= Len(p) /\ SubSeq(s, Len(s) - Len(p) + 1, Len(s)) = p
    THEN SubSeq(s, 1, Len(s) - Len(p))
    ELSE s

Fence == <<"bt","bt","bt">>
FenceJson == <<"bt","bt","bt","json">>

\* ------------------------------------------------------- the output schema
Improves == <<"I","m","p","r","o","v","e","s">>
Worsens == <<"W","o","r","s","e","n","s">>
Unchanged == <<"U","n","c","h","a","n","g","e","d">>
Positive == <<"P","o","s","i","t","i","v","e">>
Negative == <<"N","e","g","a","t","i","v","e">>
Passive == <<"P","a","s","s","i","v","e">>
Proactive == <<"P","r","o","a","c","t","i","v","e">>
Overstep == <<"O","v","e","r","s","t","e","p">>
\* a value outside every Literal of the schema
Deteriorates == <<"D","e","t","e","r","i","o","r","a","t","e","s">>

ClinicalImpacts == {Improves, Worsens, Unchanged}
AdoptionImpacts == {Positive, Negative, Unchanged}
Categories == {Passive, Proactive, Overstep}

RequiredFields ==
    {"format_1_state_log", "format_2_triples", "format_3_rl_scenario", "narrative_summary"}

\* StateLogEntryErrors with one value set shared by the three impact fields
StateLogEntryErrors_one_enum(e) ==
    LET Impacts == ClinicalImpacts \cup AdoptionImpacts IN
    (IF e.clinical_impact \in Impacts THEN <<>> ELSE <<e.clinical_impact>>)
    \o (IF e.environmental_impact \in Impacts THEN <<>> ELSE <<e.environmental_impact>>)
    \o (IF e.service_adoption_impact \in Impacts THEN <<>>
        ELSE <<e.service_adoption_impact>>)

\* the enum violations of one StateLogEntry, as the values the error text quotes
StateLogEntryErrors(e) ==
    (IF e.clinical_impact \in ClinicalImpacts THEN <<>> ELSE <<e.clinical_impact>>)
    \o (IF e.environmental_impact \in ClinicalImpacts THEN <<>> ELSE <<e.environmental_impact>>)
    \o (IF e.service_adoption_impact \in AdoptionImpacts THEN <<>>
        ELSE <<e.service_adoption_impact>>)

\* the enum violation of one RLScenarioOption
RLScenarioOptionErrors(c) == IF c \in Categories THEN <<>> ELSE <<c>>

RECURSIVE LogErrors(_)
LogErrors(log) ==
    IF log = <<>> THEN <<>> ELSE StateLogEntryErrors(Head(log)) \o LogErrors(Tail(log))

RECURSIVE OptionErrors(_)
OptionErrors(rl) ==
    IF rl = <<>> THEN <<>> ELSE RLScenarioOptionErrors(Head(rl)) \o OptionErrors(Tail(rl))

\* str(ValidationError): one line per error; a literal error quotes its input value
RECURSIVE LiteralErrorText(_)
LiteralErrorText(vals) ==
    IF vals = <<>> THEN <<>>
    ELSE <<"l","i","t","e","r","a","l"," ">> \o Head(vals) \o <<";">>
         \o LiteralErrorText(Tail(vals))

MissingErrorText == <<"m","i","s","s","i","n","g",";">>

\* SyntheticCaseOutput.model_validate(data): every declared field present, every
\* Literal field inside its value set; lists of any length and any text pass
model_validate(data) ==
    LET missing == RequiredFields \ data.keys
        bad == (IF "format_1_state_log" \in data.keys THEN LogErrors(data.log) ELSE <<>>)
               \o (IF "format_3_rl_scenario" \in data.keys THEN OptionErrors(data.rl)
                   ELSE <<>>)
    IN  IF missing = {} /\ bad = <<>>
        THEN [ok |-> TRUE, value |-> data, msg |-> <<>>]
        ELSE [ok |-> FALSE, value |-> data,
              msg |-> (IF missing = {} THEN <<>> ELSE MissingErrorText)
                      \o LiteralErrorText(bad)]

\* validated.model_dump(): the declared fields only
model_dump(validated) == [validated EXCEPT !.keys = RequiredFields]

\* ----------------------------------------------------- generator responses
GoodLog ==
    <<[clinical_impact |-> Worsens, environmental_impact |-> Unchanged,
       service_adoption_impact |-> Positive]>>
BadLog ==
    <<[clinical_impact |-> Deteriorates, environmental_impact |-> Unchanged,
       service_adoption_impact |-> Positive]>>
GoodOptions == <<Passive, Proactive, Overstep>>

DocV1 == [keys |-> RequiredFields, log |-> GoodLog, triples |-> 1,
          rl |-> GoodOptions, narrative |-> <<"n">>]
\* the same object with a key the schema does not declare
DocVx == [DocV1 EXCEPT !.keys = RequiredFields \cup {"notes"}]
\* clinical_impact outside its Literal
DocEnum == [DocV1 EXCEPT !.log = BadLog]
\* narrative_summary absent
DocMissing == [DocV1 EXCEPT !.keys = RequiredFields \ {"narrative_summary"}]

\* stands where there is no object
NoDoc == [keys |-> {}, log |-> <<>>, triples |-> 0, rl |-> <<>>, narrative |-> <<>>]

\* the tokens that are a complete JSON object, and the object each one is
JsonObjects == {"V1", "Vx", "Ienum", "Imissing"}
JsonDoc(t) ==
    CASE t = "V1" -> DocV1
      [] t = "Vx" -> DocVx
      [] t = "Ienum" -> DocEnum
      [] t = "Imissing" -> DocMissing

\* characters a token takes in the text ("trunc": an object cut off after 429 characters)
TokenWidth(t) ==
    CASE t \in {"bt", "nl", "sp"} -> 1
      [] t \in {"json", "JSON"} -> 4
      [] t = "trunc" -> 429
      [] OTHER -> 40

\* str(json.JSONDecodeError): "...: line 1 column c (char p)"
JSONDecodeErrorText(pos) == <<"c","h","a","r"," ">> \o Digits(pos)

\* json.loads(s): one JSON value, whitespace around it allowed
json_loads(s) ==
    LET t == lstrip(s)
        lead == Len(s) - Len(t)
    IN  IF t = <<>> \/ Head(t) \notin (JsonObjects \cup {"trunc"})
        THEN [ok |-> FALSE, doc |-> NoDoc, msg |-> JSONDecodeErrorText(lead)]
        ELSE IF Head(t) = "trunc"
        THEN [ok |-> FALSE, doc |-> NoDoc,
              msg |-> JSONDecodeErrorText(lead + TokenWidth("trunc"))]
        ELSE IF lstrip(Tail(t)) # <<>>
        THEN [ok |-> FALSE, doc |-> NoDoc,
              msg |-> JSONDecodeErrorText(lead + TokenWidth(Head(t))
                                          + (Len(Tail(t)) - Len(lstrip(Tail(t)))))]
        ELSE [ok |-> TRUE, doc |-> JsonDoc(Head(t)), msg |-> <<>>]

TextOf(s) == [kind |-> "text", body |-> s]
RateLimitError(m) == [kind |-> "rate_limit", body |-> m]
OtherError(m) == [kind |-> "error", body |-> m]

\* what one generate_content call can produce
GenOutcomes ==
    { TextOf(<<"V1">>),
      TextOf(<<"bt","bt","bt","json","nl","Vx","nl","bt","bt","bt">>),
      TextOf(<<"nl","bt","bt","bt","nl","V1","nl","bt","bt","bt","nl">>),
      TextOf(<<"bt","bt","bt","JSON","nl","V1","nl","bt","bt","bt">>),
      TextOf(<<"trunc">>),
      TextOf(<<"bt","bt","bt","json","nl","Ienum","nl","bt","bt","bt">>),
      TextOf(<<"Imissing">>),
      RateLimitError(<<"4","2","9"," ","q","u","o","t","a">>),
      RateLimitError(<<"R","a","t","e"," ","l","i","m","i","t">>),
      OtherError(<<"5","0","4"," ","t","i","m","e","o","u","t">>) }

NoOutcome == [kind |-> "none", body |-> <<>>]

\* ------------------------------------------------------------ the programs
VARIABLES
    entry,      \* the script this behaviour runs: "batch25" or "synthetic"
    run,        \* number of the current run against the output directory
    pc,         \* "start", "loop", "attempt", "between", "done", "aborted" or "fatal"
    count,      \* cases the for loop ranges over
    i,          \* the for loop's index
    attempt,    \* the attempt loop's index
    successes,  \* generate_batch_25: successes
    failures,   \* generate_batch_25: failures
    batchDir,   \* ./data/synthetic_batch_25: case number -> file
    outDir,     \* ./data/synthetic_output: <<timestamp, run_index>> -> file
    now,        \* the last second datetime.now() returned
    calls,      \* generate_content calls made for the current case
    status,     \* the current case: "attempting", "succeeded" or "exhausted"
    rateOnly,   \* every call for the current case raised a rate-limit error
    failed,     \* cases of this run whose attempts all ended without success
    lastOut,    \* what the last generate_content call produced
    lastCause,  \* how the last attempt ended: "ok", "generator", "parse", "validation"
    lastClass,  \* the handler's branch: "ok", "rate" or "other"
    lastWait,   \* seconds the last attempt's handler slept
    lastCounted, \* what the last attempt added to failures
    credential, \* GEMINI_API_KEY is set in the environment of this run
    retrievals, \* retrieve_few_shot_examples calls made in this run
    record,     \* the parsed object handed to SyntheticCaseOutput.model_validate
    verdict,    \* what model_validate made of record
    seed,       \* the seed case handed to build_metadata_dict
    metadata,   \* the metadata record build_metadata_dict returned
    corpus,     \* ./data/seed_cases: file number -> file text
    index,      \* the seed_cases collection: id -> the entries stored under it
    ingested,   \* how the last ingest_seed_cases run ended
    op,         \* the last operation on the collection
    query,      \* complexity_gte and n of the last retrieval on this collection
    examples,   \* what that retrieve_few_shot_examples call returned
    given,      \* the six arguments of the last build_prompt call
    prompt,     \* the text the last build_prompt call returned
    earlier,    \* the six arguments of the build_prompt call before it
    earlierPrompt, \* the text that call returned
    rows,       \* the rows upload_cases.main built last, each with its file's name
    session,    \* st.session_state of each browser session
    client,     \* the user whose tokens the cached Supabase client holds
    shown,      \* what the last script run of each browser session rendered
    pending,    \* the page of that run has its client and has yet to execute its queries
    under,      \* the user session under which the queries of that run executed
    result,     \* what the handler of each browser session's last interaction did
    shape,      \* how many events, triples and options the evaluated case has
    tables,     \* the rows of one evaluation session in the three eval tables
    before,     \* those rows as they were when _save_answers was last called
    call        \* the three input lists of that call

vars == <<entry, run, pc, count, i, attempt, successes, failures, batchDir, outDir,
          now, calls, status, rateOnly, failed, lastOut, lastCause, lastClass,
          lastWait, lastCounted, credential, retrievals, record, verdict, seed,
          metadata, corpus, index, ingested, op, query, examples, given, prompt,
          earlier, earlierPrompt, rows, session, client, shown, pending, under,
          result, shape, tables, before, call>>

\* the state of the generation scripts, and the state of the parts exercised on
\* their own
scriptVars == <<entry, run, pc, count, i, attempt, successes, failures, batchDir, outDir,
                now, calls, status, rateOnly, failed, lastOut, lastCause, lastClass,
                lastWait, lastCounted, credential, retrievals>>
validatorVars == <<record, verdict>>
metadataVars == <<seed, metadata>>
indexVars == <<corpus, index, ingested, op, query, examples>>
promptVars == <<given, prompt, earlier, earlierPrompt>>
uploadVars == <<rows>>
\* the parts that come after the prompt assembly
uiVars == <<session, client, shown, pending, under, result>>
saveVars == <<shape, tables, before, call>>
restVars == <<uploadVars, uiVars, saveVars>>
partVars == <<validatorVars, metadataVars, indexVars, promptVars, restVars>>

NotValidated == [ok |-> FALSE, value |-> NoDoc, msg |-> <<"n","o","n","e">>]
ValidatorIdle == record = NoDoc /\ verdict = NotValidated
\* a key the object does not have
JAbsent == [t |-> "absent", n |-> 0, s |-> <<>>, items |-> <<>>]
NoSeed ==
    [case_header |-> [case_id |-> JAbsent, complexity_score |-> JAbsent,
                      outcome |-> JAbsent],
     clinical_logic |-> [skilled_need_verified |-> JAbsent,
                         clinical_barriers |-> JAbsent],
     environmental_logic |-> [modification_type |-> JAbsent]]
NoMetadata ==
    [complexity_score |-> JAbsent, outcome |-> JAbsent, has_skilled_need |-> JAbsent,
     primary_friction |-> JAbsent, raw_json |-> JAbsent]
MetadataIdle == seed = NoSeed /\ metadata = NoMetadata
NoQuery == [gte |-> 0, n |-> 0]
IndexIdle ==
    /\ corpus = <<>>
    /\ index = <<>>
    /\ ingested = "none"
    /\ op = "none"
    /\ query = NoQuery
    /\ examples = <<>>
NoArguments ==
    [friction_taxonomy |-> <<>>, action_taxonomy |-> <<>>, outcome_taxonomy |-> <<>>,
     few_shot_examples |-> <<>>, target_patient |-> "", target_friction |-> ""]
PromptIdle ==
    /\ given = NoArguments
    /\ prompt = <<>>
    /\ earlier = NoArguments
    /\ earlierPrompt = <<>>
UploadIdle == rows = <<>>
UIIdle ==
    /\ session = <<>>
    /\ client = "none"
    /\ shown = <<>>
    /\ pending = <<>>
    /\ under = <<>>
    /\ result = <<>>
SaveIdle ==
    /\ shape = <<>>
    /\ tables = <<>>
    /\ before = <<>>
    /\ call = <<>>
RestIdle == UploadIdle /\ UIIdle /\ SaveIdle
PartsIdle == ValidatorIdle /\ MetadataIdle /\ IndexIdle /\ PromptIdle /\ RestIdle

Absent == [run |-> 0, doc |-> NoDoc]
FileOf(r, d) == [run |-> r, doc |-> d]
OutNames == (0..MaxClock) \X (1..MaxBatch)

\* the condition of the handler's first branch
is_rate_limited(err) ==
    Contains(err, <<"4","2","9">>) \/ Contains(str_lower(err), <<"r","a","t","e">>)

\* raw without .removeprefix("```json")
raw_no_json_tag(text) == strip(removesuffix(removeprefix(strip(text), Fence), Fence))

\* the fence stripping of generate_batch_25.main
raw(text) ==
    strip(removesuffix(removeprefix(removeprefix(strip(text), FenceJson), Fence), Fence))

\* the fence stripping of validate_and_save
cleaned(raw_text) ==
    strip(removesuffix(removeprefix(removeprefix(strip(raw_text), FenceJson), Fence),
                       Fence))

\* try_body persisting whatever parses, without model_validate
try_body_unvalidated(out) ==
    IF out.kind # "text"
    THEN [success |-> FALSE, cause |-> "generator", err |-> out.body, dump |-> NoDoc]
    ELSE LET data == json_loads(raw(out.body)) IN
         IF ~data.ok
         THEN [success |-> FALSE, cause |-> "parse", err |-> data.msg, dump |-> NoDoc]
         ELSE [success |-> TRUE, cause |-> "ok", err |-> <<>>, dump |-> data.doc]

\* the try block of generate_batch_25.main on one generator outcome: the file it
\* writes, or the text of the exception it raises
try_body(out) ==
    IF out.kind # "text"
    THEN [success |-> FALSE, cause |-> "generator", err |-> out.body, dump |-> NoDoc]
    ELSE LET data == json_loads(raw(out.body)) IN
         IF ~data.ok
         THEN [success |-> FALSE, cause |-> "parse", err |-> data.msg, dump |-> NoDoc]
         ELSE LET validated == model_validate(data.doc) IN
              IF ~validated.ok
              THEN [success |-> FALSE, cause |-> "validation", err |-> validated.msg,
                    dump |-> NoDoc]
              ELSE [success |-> TRUE, cause |-> "ok", err |-> <<>>,
                    dump |-> model_dump(validated.value)]

\* wait = 60 * attempt, the zero-based index taken for the attempt number
rate_limit_wait_zero_based(att) == 60 * att

\* wait = 60 * (attempt + 1)
rate_limit_wait(att) == 60 * (att + 1)

\* the except block: seconds slept and what is added to failures
except_handler(err, att) ==
    IF is_rate_limited(err)
    THEN [class |-> "rate", wait |-> rate_limit_wait(att), counted |-> 0]
    ELSE IF att = 2
         THEN [class |-> "other", wait |-> 0, counted |-> 1]
         ELSE [class |-> "other", wait |-> 5, counted |-> 0]

\* loop_continues without the break after a success
loop_continues_no_break(success, att) == att + 1 < AttemptCap

\* whether the attempt loop runs again: break on success, range(3) otherwise
loop_continues(success, att) == ~success /\ att + 1 < AttemptCap

\* validate_and_save(raw_text, run_index) at second ts: the directory afterwards
\* and whether a validated record is returned
validate_and_save(raw_text, run_index, ts) ==
    LET data == json_loads(cleaned(raw_text)) IN
    IF ~data.ok THEN [dir |-> outDir, saved |-> FALSE, cause |-> "parse"]
    ELSE LET validated == model_validate(data.doc) IN
         IF ~validated.ok THEN [dir |-> outDir, saved |-> FALSE, cause |-> "validation"]
         ELSE [dir |-> [outDir EXCEPT ![<<ts, run_index>>] =
                             FileOf(run, model_dump(validated.value))],
               saved |-> TRUE, cause |-> "ok"]

CountsOf(e) == IF e = "batch25" THEN {BatchCases} ELSE 1..MaxBatch

Fresh ==
    /\ pc = "start"
    /\ retrievals = 0
    /\ i = 0
    /\ attempt = 0
    /\ successes = 0
    /\ failures = 0
    /\ calls = 0
    /\ status = "attempting"
    /\ rateOnly = TRUE
    /\ failed = {}
    /\ lastOut = NoOutcome
    /\ lastCause = "none"
    /\ lastClass = "none"
    /\ lastWait = 0
    /\ lastCounted = 0

Init ==
    /\ entry \in {"batch25", "synthetic"}
    /\ run = 1
    /\ count \in CountsOf(entry)
    /\ batchDir = [c \in 1..BatchCases |-> Absent]
    /\ outDir = [n \in OutNames |-> Absent]
    /\ now = 0
    /\ credential \in BOOLEAN
    /\ Fresh
    /\ PartsIdle

\* the generator outcomes a run can meet: without a credential generate_content
\* returns no text
Outcomes == IF credential THEN GenOutcomes ELSE {o \in GenOutcomes : o.kind = "error"}

\* main up to the for loop: the credential (checked by generate_synthetic.main
\* only), the collection, the three taxonomy files
Startup ==
    /\ pc = "start"
    /\ \E taxonomies \in BOOLEAN :
          pc' = IF entry = "synthetic" /\ ~credential THEN "fatal"
                ELSE IF ~taxonomies THEN "fatal"
                ELSE "loop"
    /\ UNCHANGED <<entry, run, count, i, attempt, successes, failures, batchDir, outDir,
                   now, calls, status, rateOnly, failed, lastOut, lastCause, lastClass,
                   lastWait, lastCounted, credential, retrievals>>
    /\ UNCHANGED partVars

\* generate_batch_25.main, top of the for loop: sample the targets, retrieve the
\* exemplars, build the prompt (outside the try block)
BeginCase ==
    /\ entry = "batch25"
    /\ pc = "loop"
    /\ i < count
    /\ \E retrieved \in BOOLEAN :
          pc' = IF retrieved THEN "attempt" ELSE "aborted"
    /\ attempt' = 0
    /\ calls' = 0
    /\ status' = "attempting"
    /\ rateOnly' = TRUE
    /\ lastOut' = NoOutcome
    /\ lastCause' = "none"
    /\ lastClass' = "none"
    /\ lastWait' = 0
    /\ lastCounted' = 0
    /\ retrievals' = retrievals + 1
    /\ UNCHANGED <<entry, run, count, i, successes, failures, batchDir, outDir, now,
                   failed, credential>>
    /\ UNCHANGED partVars

\* generate_batch_25.main, one pass of the attempt loop
Attempt ==
    /\ entry = "batch25"
    /\ pc = "attempt"
    /\ \E out \in Outcomes :
          LET r == try_body(out)
              h == except_handler(r.err, attempt)
              again == loop_continues(r.success, attempt)
          IN  /\ lastOut' = out
              /\ calls' = calls + 1
              /\ rateOnly' = (rateOnly /\ out.kind = "rate_limit")
              /\ lastCause' = r.cause
              /\ IF r.success
                 THEN /\ batchDir' = [batchDir EXCEPT ![i + 1] = FileOf(run, r.dump)]
                      /\ successes' = successes + 1
                      /\ failures' = failures
                      /\ lastClass' = "ok"
                      /\ lastWait' = 0
                      /\ lastCounted' = 0
                 ELSE /\ batchDir' = batchDir
                      /\ successes' = successes
                      /\ failures' = failures + h.counted
                      /\ lastClass' = h.class
                      /\ lastWait' = h.wait
                      /\ lastCounted' = h.counted
              /\ status' = IF r.success \/ status = "succeeded" THEN "succeeded"
                           ELSE IF again THEN "attempting" ELSE "exhausted"
              /\ IF again
                 THEN /\ attempt' = attempt + 1
                      /\ pc' = "attempt"
                      /\ failed' = failed
                 ELSE /\ attempt' = attempt
                      /\ pc' = "between"
                      /\ failed' = IF r.success \/ status = "succeeded" THEN failed
                                   ELSE failed \cup {i + 1}
    /\ UNCHANGED <<entry, run, count, i, outDir, now, credential, retrievals>>
    /\ UNCHANGED partVars

\* generate_batch_25.main: time.sleep(2), then the next case
InterCaseDelay ==
    /\ entry = "batch25"
    /\ pc = "between"
    /\ i' = i + 1
    /\ pc' = "loop"
    /\ UNCHANGED <<entry, run, count, attempt, successes, failures, batchDir, outDir,
                   now, calls, status, rateOnly, failed, lastOut, lastCause, lastClass,
                   lastWait, lastCounted, credential, retrievals>>
    /\ UNCHANGED partVars

\* generate_synthetic.main, one pass of the for loop: retrieval, prompt, generator
\* call and validate_and_save, none of them inside a try block
Generation ==
    /\ entry = "synthetic"
    /\ pc = "loop"
    /\ i < count
    /\ retrievals' = retrievals + 1
    /\ \E retrieved \in BOOLEAN, out \in Outcomes, ts \in {now, now + 1} :
          /\ ts <= MaxClock
          /\ IF ~retrieved
             THEN /\ pc' = "aborted"
                  /\ UNCHANGED <<i, outDir, now, calls, lastOut, lastCause>>
             ELSE IF out.kind # "text"
             THEN /\ pc' = "aborted"
                  /\ calls' = calls + 1
                  /\ lastOut' = out
                  /\ lastCause' = "generator"
                  /\ UNCHANGED <<i, outDir, now>>
             ELSE LET s == validate_and_save(out.body, i + 1, ts) IN
                  /\ pc' = "loop"
                  /\ calls' = calls + 1
                  /\ lastOut' = out
                  /\ lastCause' = s.cause
                  /\ outDir' = s.dir
                  /\ now' = IF s.saved THEN ts ELSE now
                  /\ i' = i + 1
    /\ UNCHANGED <<entry, run, count, attempt, successes, failures, batchDir, status,
                   rateOnly, failed, lastClass, lastWait, lastCounted, credential>>
    /\ UNCHANGED partVars

\* the end-of-run report of either script
Report ==
    /\ pc = "loop"
    /\ i = count
    /\ pc' = "done"
    /\ UNCHANGED <<entry, run, count, i, attempt, successes, failures, batchDir, outDir,
                   now, calls, status, rateOnly, failed, lastOut, lastCause, lastClass,
                   lastWait, lastCounted, credential, retrievals>>
    /\ UNCHANGED partVars

\* the script is started again; the output directories keep their files
StartRun ==
    /\ pc \in {"done", "aborted", "fatal"}
    /\ run < MaxRuns
    /\ run' = run + 1
    /\ count' \in CountsOf(entry)
    /\ credential' \in BOOLEAN
    /\ retrievals' = 0
    /\ pc' = "start"
    /\ i' = 0
    /\ attempt' = 0
    /\ successes' = 0
    /\ failures' = 0
    /\ calls' = 0
    /\ status' = "attempting"
    /\ rateOnly' = TRUE
    /\ failed' = {}
    /\ lastOut' = NoOutcome
    /\ lastCause' = "none"
    /\ lastClass' = "none"
    /\ lastWait' = 0
    /\ lastCounted' = 0
    /\ UNCHANGED <<entry, batchDir, outDir, now>>
    /\ UNCHANGED partVars

\* f"case_{i+1:02d}.json" of generate_batch_25.main
out_path(n) == <<"case_">> \o (IF n < 10 THEN <<"0">> ELSE <<>>) \o Digits(n) \o <<".json">>

\* f"Case_{idx}" of upload_cases.main
label(idx) == <<"Case_">> \o Digits(idx)

\* a < b for two strings of digits, as sorted() compares str
RECURSIVE digits_less(_, _)
digits_less(a, b) ==
    IF a = <<>> THEN b # <<>>
    ELSE IF b = <<>> THEN FALSE
    ELSE LET x == CHOOSE k \in 1..10 : DigitChar[k] = Head(a)
             y == CHOOSE k \in 1..10 : DigitChar[k] = Head(b)
         IN  IF x = y THEN digits_less(Tail(a), Tail(b)) ELSE x < y

\* a < b for two file names case_<digits>.json: the digits decide
name_less(a, b) == digits_less(SubSeq(a, 2, Len(a) - 1), SubSeq(b, 2, Len(b) - 1))

\* sorted(names)
RECURSIVE sorted(_)
sorted(names) ==
    IF names = {} THEN <<>>
    ELSE LET first == CHOOSE a \in names : \A b \in names \ {a} : name_less(a, b)
         IN  <<first>> \o sorted(names \ {first})

\* the rows upload_cases.main builds from the directory: the files in sorted
\* order, labelled by their position; file is the name the row was read from
upload_rows(dir) ==
    LET files == sorted({out_path(c) : c \in {d \in DOMAIN dir : dir[d] # Absent}})
    IN  [idx \in 1..Len(files) |-> [label |-> label(idx), file |-> files[idx]]]

\* python upload_cases.py, after a run of the batch orchestrator has ended
Upload ==
    /\ entry = "batch25"
    /\ pc \in {"done", "aborted", "fatal"}
    /\ rows' = upload_rows(batchDir)
    /\ UNCHANGED <<scriptVars, validatorVars, metadataVars, indexVars, promptVars, uiVars,
                   saveVars>>

Next ==
    \/ Startup
    \/ BeginCase
    \/ Attempt
    \/ InterCaseDelay
    \/ Generation
    \/ Report
    \/ StartRun

Spec == Init /\ [][Next]_vars

\* runs of generate_batch_25.py alone
InitBatch25 == Init /\ entry = "batch25"
NextBatch25 ==
    \/ Startup
    \/ BeginCase
    \/ Attempt
    \/ InterCaseDelay
    \/ Report
    \/ StartRun
    \/ Upload
SpecBatch25 == InitBatch25 /\ [][NextBatch25]_vars

\* ------------------------------------------------------- the validator alone
\* the scripts at rest while a part is exercised on its own
ScriptsIdle ==
    /\ entry = "batch25"
    /\ run = 1
    /\ count = BatchCases
    /\ batchDir = [c \in 1..BatchCases |-> Absent]
    /\ outDir = [n \in OutNames |-> Absent]
    /\ now = 0
    /\ credential = TRUE
    /\ Fresh

\* the fourth value of the annotation form's impact selectors
Unclear == <<"U","n","c","l","e","a","r">>

\* timeline events and options with every Literal field inside its value set
EventAt(k) ==
    IF k % 2 = 1
    THEN [clinical_impact |-> Worsens, environmental_impact |-> Unchanged,
          service_adoption_impact |-> Positive]
    ELSE [clinical_impact |-> Improves, environmental_impact |-> Worsens,
          service_adoption_impact |-> Negative]
LogOfLength(n) == [k \in 1..n |-> EventAt(k)]
OptionsOfLength(n) == [k \in 1..n |-> GoodOptions[((k - 1) % 3) + 1]]

\* a Literal field given a value outside its set
EnumDefects ==
    {<<"clinical_impact", Unclear>>, <<"clinical_impact", Positive>>,
     <<"environmental_impact", Unclear>>, <<"environmental_impact", Negative>>,
     <<"service_adoption_impact", Unclear>>, <<"service_adoption_impact", Improves>>}
CategoryDefects == {Unclear, Positive}

\* format_1_state_log values: any length up to MaxLog, at most one event defective
Logs ==
    UNION {{LogOfLength(n)}
           \cup {[LogOfLength(n) EXCEPT ![p][d[1]] = d[2]] : p \in 1..n, d \in EnumDefects}
           : n \in 0..MaxLog}

\* format_3_rl_scenario values: any length up to MaxOptions, at most one defective
OptionLists ==
    UNION {{OptionsOfLength(n)}
           \cup {[OptionsOfLength(n) EXCEPT ![p] = d] : p \in 1..n, d \in CategoryDefects}
           : n \in 0..MaxOptions}

\* the keys of the parsed object: all four, one missing, or one undeclared extra
KeySets ==
    {RequiredFields, RequiredFields \cup {"notes"}}
    \cup {RequiredFields \ {f} : f \in RequiredFields}

\* the parsed objects handed to the validator
Records ==
    [keys : KeySets, log : Logs, triples : 0..MaxTriples, rl : OptionLists,
     narrative : {<<>>, <<"n">>}]

InitValidator ==
    /\ ScriptsIdle
    /\ record \in Records
    /\ verdict = NotValidated
    /\ MetadataIdle
    /\ IndexIdle
    /\ PromptIdle
    /\ RestIdle

\* SyntheticCaseOutput.model_validate(data)
Validate ==
    /\ verdict = NotValidated
    /\ verdict' = model_validate(record)
    /\ UNCHANGED <<scriptVars, record, metadataVars, indexVars, promptVars>>
    /\ UNCHANGED restVars

SpecValidator == InitValidator /\ [][Validate]_vars

\* -------------------------------------------------------- the seed indexer
\* JSON values as json.load returns them: a type tag with the number, the text or
\* the items the value holds; "absent" stands for a key the object does not have
JInt(k) == [t |-> "int", n |-> k, s |-> <<>>, items |-> <<>>]
JFloat(k) == [t |-> "float", n |-> k, s |-> <<>>, items |-> <<>>]
JBool(b) == [t |-> "bool", n |-> IF b THEN 1 ELSE 0, s |-> <<>>, items |-> <<>>]
JStr(x) == [t |-> "str", n |-> 0, s |-> x, items |-> <<>>]
JList(xs) == [t |-> "list", n |-> 0, s |-> <<>>, items |-> xs]
JDict(ks) == [t |-> "dict", n |-> 0, s |-> <<>>, items |-> ks]
JNull == [t |-> "null", n |-> 0, s |-> <<>>, items |-> <<>>]

\* dict.get(key, default)
get(v, default) == IF v.t = "absent" THEN default ELSE v

\* bool(v)
truthy(v) ==
    CASE v.t \in {"int", "bool"} -> v.n # 0
      [] v.t = "float" -> TRUE
      [] v.t = "str" -> v.s # <<>>
      [] v.t \in {"list", "dict"} -> v.items # <<>>
      [] OTHER -> FALSE

\* str(v)
str(v) ==
    CASE v.t = "str" -> v.s
      [] v.t = "int" -> Digits(v.n)
      [] v.t = "float" -> Digits(v.n) \o <<".","5">>
      [] v.t = "bool" -> IF v.n = 1 THEN <<"T","r","u","e">> ELSE <<"F","a","l","s","e">>
      [] v.t = "null" -> <<"N","o","n","e">>
      [] v.t = "list" -> <<"[">> \o (IF v.items = <<>> THEN <<>> ELSE <<".">>) \o <<"]">>
      [] OTHER -> <<"{">> \o (IF v.items = <<>> THEN <<>> ELSE <<".">>) \o <<"}">>

\* int(v): the number, or the exception it raises
int(v) ==
    CASE v.t \in {"int", "bool", "float"} -> [raised |-> "none", n |-> v.n]
      [] v.t = "str" ->
            IF \E k \in 0..9 : Digits(k) = strip(v.s)
            THEN [raised |-> "none", n |-> CHOOSE k \in 0..9 : Digits(k) = strip(v.s)]
            ELSE [raised |-> "ValueError", n |-> 0]
      [] OTHER -> [raised |-> "TypeError", n |-> 0]

\* json.dumps of one value
RECURSIVE dumps(_)
RECURSIVE dumps_items(_)
dumps_items(xs) ==
    IF xs = <<>> THEN <<>>
    ELSE dumps(Head(xs)) \o (IF Tail(xs) = <<>> THEN <<>> ELSE <<",">> \o dumps_items(Tail(xs)))
dumps(v) ==
    CASE v.t = "int" -> Digits(v.n)
      [] v.t = "float" -> Digits(v.n) \o <<".","5">>
      [] v.t = "bool" -> IF v.n = 1 THEN <<"true">> ELSE <<"false">>
      [] v.t = "str" -> <<"quote">> \o v.s \o <<"quote">>
      [] v.t = "null" -> <<"null">>
      [] v.t = "list" -> <<"[">> \o dumps_items(v.items) \o <<"]">>
      [] OTHER -> <<"{">> \o dumps_items(v.items) \o <<"}">>

\* one "key": value member of an object, nothing for a key the object lacks
member(key, v) == IF v.t = "absent" THEN <<>> ELSE <<key, ":">> \o dumps(v) \o <<",">>

\* json.dumps(data) of a seed case
json_dumps(data) ==
    <<"{", "case_header", ":", "{">>
    \o member("case_id", data.case_header.case_id)
    \o member("complexity_score", data.case_header.complexity_score)
    \o member("outcome", data.case_header.outcome)
    \o <<"}", ",", "clinical_logic", ":", "{">>
    \o member("skilled_need_verified", data.clinical_logic.skilled_need_verified)
    \o member("clinical_barriers", data.clinical_logic.clinical_barriers)
    \o <<"}", ",", "environmental_logic", ":", "{">>
    \o member("modification_type", data.environmental_logic.modification_type)
    \o <<"}", "}">>

Yes == <<"Y","e","s">>
No == <<"N","o">>
Unknown == <<"U","n","k","n","o","w","n">>

\* build_metadata_dict(data, raw_json)
build_metadata_dict(data, raw_json) ==
    LET header == data.case_header
        clinical == data.clinical_logic
        env == data.environmental_logic
        score == int(get(header.complexity_score, JInt(0)))
        complexity_score == IF score.raised = "none" THEN score.n ELSE 0
        outcome == str(get(header.outcome, JStr(Unknown)))
        skilled_need == get(clinical.skilled_need_verified, JStr(No))
        has_skilled_need ==
            IF str_lower(strip(str(skilled_need)))
                   \in {<<"y","e","s">>, <<"t","r","u","e">>, <<"1">>}
            THEN Yes ELSE No
        modification == get(env.modification_type, JStr(<<>>))
        primary_friction ==
            IF modification.t = "list"
            THEN IF truthy(modification) THEN modification.items[1] ELSE JStr(Unknown)
            ELSE IF truthy(modification) THEN JStr(str(modification)) ELSE JStr(Unknown)
    IN  [complexity_score |-> JInt(complexity_score),
         outcome |-> JStr(outcome),
         has_skilled_need |-> JStr(has_skilled_need),
         primary_friction |-> primary_friction,
         raw_json |-> JStr(raw_json)]

\* a seed case as json.load returns it
Seed(case_id, score, outcome, skilled, barriers, modification) ==
    [case_header |-> [case_id |-> case_id, complexity_score |-> score,
                      outcome |-> outcome],
     clinical_logic |-> [skilled_need_verified |-> skilled,
                         clinical_barriers |-> barriers],
     environmental_logic |-> [modification_type |-> modification]]

S1 == <<"S","1">>
S2 == <<"S","2">>
Ramp == <<"R","a","m","p">>
CHF == <<"C","H","F">>
Home == <<"H","o","m","e">>

\* values a seed file can hold under each key the metadata is built from
ComplexityValues ==
    {JInt(k) : k \in 0..MaxComplexity}
    \cup {JAbsent, JNull, JFloat(4), JStr(<<"5">>), JStr(<<"h","i","g","h">>), JList(<<>>)}
OutcomeValues == {JAbsent, JStr(Home), JNull}
SkilledValues ==
    {JAbsent, JNull, JStr(Yes), JStr(No), JStr(<<"sp","Y","E","S","sp">>),
     JBool(TRUE), JBool(FALSE), JInt(1)}
ModificationValues ==
    {JAbsent, JNull, JStr(<<>>), JStr(Ramp), JInt(0), JList(<<>>),
     JList(<<JStr(Ramp)>>), JList(<<JStr(Ramp), JStr(CHF)>>), JList(<<JInt(3)>>),
     JList(<<JList(<<JStr(Ramp)>>)>>), JList(<<JDict(<<JStr(Ramp)>>)>>),
     JList(<<JNull>>)}

MetadataSeeds ==
    {Seed(JStr(S1), c, o, k, JList(<<JStr(CHF)>>), m) :
        c \in ComplexityValues, o \in OutcomeValues, k \in SkilledValues,
        m \in ModificationValues}

InitMetadata ==
    /\ ScriptsIdle
    /\ ValidatorIdle
    /\ seed \in MetadataSeeds
    /\ metadata = NoMetadata
    /\ IndexIdle
    /\ PromptIdle
    /\ RestIdle

\* metadata = build_metadata_dict(data, raw_json) of ingest_seed_cases
BuildMetadata ==
    /\ metadata = NoMetadata
    /\ metadata' = build_metadata_dict(seed, json_dumps(seed))
    /\ UNCHANGED <<scriptVars, validatorVars, seed, indexVars, promptVars>>
    /\ UNCHANGED restVars

SpecMetadata == InitMetadata /\ [][BuildMetadata]_vars

\* ------------------------------------------- ingest and retrieval together
Stairs == <<"S","t","a","i","r","s">>

\* the seed cases the corpus is made of: S1 at complexity 5 and a later revision
\* of it, S2 at complexity 3, S2 at the top complexity, a case without header
SeedA == Seed(JStr(S1), JInt(5), JStr(Home), JStr(Yes), JList(<<JStr(CHF)>>), JStr(Ramp))
SeedA2 ==
    Seed(JStr(S1), JInt(5), JStr(Home), JStr(Yes), JList(<<JStr(CHF), JStr(Stairs)>>),
         JStr(Ramp))
SeedB == Seed(JStr(S2), JInt(3), JAbsent, JStr(No), JList(<<>>), JList(<<JStr(Ramp)>>))
SeedC == Seed(JStr(S2), JInt(MaxComplexity), JStr(Home), JAbsent, JAbsent, JAbsent)
SeedH == Seed(JAbsent, JAbsent, JAbsent, JStr(Yes), JList(<<JStr(CHF)>>), JStr(Ramp))
IngestSeeds == {SeedA, SeedA2, SeedB, SeedC, SeedH}

\* a seed file cut off before its end, and the slot of a file that is not there
Truncated(text) == SubSeq(text, 1, Len(text) - 1)
NoFile == <<>>
SeedText == [d \in IngestSeeds |-> json_dumps(d)]
FileTexts == {SeedText[d] : d \in IngestSeeds} \cup {Truncated(SeedText[SeedB])}

\* json.load / json.loads of a seed case text
json_load(text) ==
    IF \E d \in IngestSeeds : SeedText[d] = text
    THEN [ok |-> TRUE, data |-> CHOOSE d \in IngestSeeds : SeedText[d] = text]
    ELSE [ok |-> FALSE, data |-> NoSeed]

\* "; ".join(items)
RECURSIVE join(_)
join(items) ==
    IF items = <<>> THEN <<>>
    ELSE Head(items).s \o (IF Tail(items) = <<>> THEN <<>> ELSE <<"; ">> \o join(Tail(items)))

\* build_document_string(data), for a case without physical barriers, triples and
\* chaos signals
build_document_string(data) ==
    LET clinical_barriers == get(data.clinical_logic.clinical_barriers, JList(<<>>)) IN
    (IF clinical_barriers.t = "list"
     THEN <<"Clinical Barriers: ">> \o join(clinical_barriers.items) \o <<" | ">>
     ELSE IF clinical_barriers.t = "str"
     THEN <<"Clinical Barriers: ">> \o clinical_barriers.s \o <<" | ">>
     ELSE <<>>)
    \o <<"Chaos Signals: ">>

\* the name of file f, and filename.replace(".json", "")
FileName(f) == <<"f">> \o Digits(f) \o <<".json">>
replace_json(filename) == SelectSeq(filename, LAMBDA c : c # ".json")

\* the case_id of the case in file f
case_id(data, f) == get(data.case_header.case_id, JStr(replace_json(FileName(f)))).s

Ids == {S1, S2} \cup {replace_json(FileName(f)) : f \in 1..MaxFiles}
EmptyIndex == [id \in Ids |-> <<>>]

\* EntryOf with the searchable text stored as the payload
EntryOf_text_as_payload(data) ==
    [document |-> build_document_string(data),
     metadata |-> build_metadata_dict(data, build_document_string(data))]

\* the entry ingest_seed_cases builds for one case
EntryOf(data) ==
    [document |-> build_document_string(data),
     metadata |-> build_metadata_dict(data, json_dumps(data))]

\* collection.add in the place of collection.upsert
add(idx, batch) ==
    [id \in DOMAIN idx |->
        IF id \in DOMAIN batch THEN Append(idx[id], batch[id]) ELSE idx[id]]

\* collection.upsert of a batch whose ids are all different
upsert(idx, batch) ==
    [id \in DOMAIN idx |-> IF id \in DOMAIN batch THEN <<batch[id]>> ELSE idx[id]]

\* ingest_seed_cases() on the directory dir and the collection idx: json.load of a
\* malformed file raises inside the loop, before the one upsert after it; the
\* collection refuses a batch that names an id twice
ingest_seed_cases(dir, idx) ==
    LET seed_files == {f \in DOMAIN dir : dir[f] # NoFile}
        loaded == [f \in seed_files |-> json_load(dir[f])]
        ids == [f \in seed_files |-> case_id(loaded[f].data, f)]
        batch == [id \in {ids[f] : f \in seed_files} |->
                     EntryOf(loaded[CHOOSE f \in seed_files : ids[f] = id].data)]
    IN  IF seed_files = {} THEN [index |-> idx, ended |-> "empty"]
        ELSE IF \E f \in seed_files : ~loaded[f].ok
        THEN [index |-> idx, ended |-> "aborted"]
        ELSE IF \E f, g \in seed_files : f # g /\ ids[f] = ids[g]
        THEN [index |-> idx, ended |-> "aborted"]
        ELSE [index |-> upsert(idx, batch), ended |-> "done"]

\* the where clause without its comparison
where_any(stored, complexity_gte) == TRUE

\* where={"complexity_score": {"$gte": complexity_gte}} on one stored entry
where_gte(stored, complexity_gte) ==
    /\ stored.metadata.complexity_score.t \in {"int", "float"}
    /\ stored.metadata.complexity_score.n >= complexity_gte

\* the places <<id, k>> of the stored entries the where clause lets through
Matching(idx, complexity_gte) ==
    {place \in UNION {{<<id, k>> : k \in 1..Len(idx[id])} : id \in DOMAIN idx} :
        where_gte(idx[place[1]][place[2]], complexity_gte)}

\* collection.query(n_results=n, where=...): the nearest n of the matching entries,
\* in any order of distance, fewer when fewer match
QueryResults(idx, complexity_gte, n) ==
    LET found == Matching(idx, complexity_gte)
        m == IF Cardinality(found) < n THEN Cardinality(found) ELSE n
    IN  {ranked \in [1..m -> found] :
            \A a, b \in 1..m : a # b => ranked[a] # ranked[b]}

\* the loop of retrieve_few_shot_examples over results["metadatas"][0]
RECURSIVE examples_from(_)
examples_from(metadatas) ==
    IF metadatas = <<>> THEN <<>>
    ELSE LET raw_json == get(Head(metadatas).raw_json, JStr(<<>>))
             parsed == json_load(raw_json.s)
         IN  (IF truthy(raw_json) /\ parsed.ok THEN <<parsed.data>> ELSE <<>>)
             \o examples_from(Tail(metadatas))

\* retrieve_few_shot_examples, given what collection.query ranked
retrieve_few_shot_examples(idx, ranked) ==
    examples_from([k \in 1..Len(ranked) |-> idx[ranked[k][1]][ranked[k][2]].metadata])

\* the files each slot of the seed directory can hold
FilesAt(f) ==
    IF f = 1 THEN {NoFile, SeedText[SeedA], SeedText[SeedA2]}
    ELSE IF f = 2
    THEN {NoFile, SeedText[SeedB], SeedText[SeedC], SeedText[SeedA2],
          Truncated(SeedText[SeedB])}
    ELSE {NoFile, SeedText[SeedH]}
Corpora == {dir \in [1..MaxFiles -> FileTexts \cup {NoFile}] :
               \A f \in 1..MaxFiles : dir[f] \in FilesAt(f)}

\* an entry another writer left in the collection: its payload is not JSON
ForeignEntry ==
    [document |-> <<"Chaos Signals: ">>,
     metadata |-> [EntryOf(SeedC).metadata EXCEPT
                      !.raw_json = JStr(Truncated(SeedText[SeedC]))]]

\* the thresholds a retrieval asks for: the scripts' 4, and two above it
GteValues == {4, 6, MaxComplexity + 1}

InitIndex ==
    /\ ScriptsIdle
    /\ ValidatorIdle
    /\ MetadataIdle
    /\ corpus \in Corpora
    /\ index \in {EmptyIndex, [EmptyIndex EXCEPT ![S2] = <<ForeignEntry>>]}
    /\ ingested = "none"
    /\ op = "none"
    /\ query = NoQuery
    /\ examples = <<>>
    /\ PromptIdle
    /\ RestIdle

\* one file of the seed directory is added, removed or rewritten
EditCorpus ==
    /\ \E f \in 1..MaxFiles :
          \E text \in FilesAt(f) \ {corpus[f]} : corpus' = [corpus EXCEPT ![f] = text]
    /\ op' = "edit"
    /\ query' = NoQuery
    /\ examples' = <<>>
    /\ UNCHANGED <<scriptVars, validatorVars, metadataVars, index, ingested, promptVars>>
    /\ UNCHANGED restVars

\* python ingest_seeds.py
Ingest ==
    /\ LET r == ingest_seed_cases(corpus, index) IN
          /\ index' = r.index
          /\ ingested' = r.ended
    /\ op' = "ingest"
    /\ query' = NoQuery
    /\ examples' = <<>>
    /\ UNCHANGED <<scriptVars, validatorVars, metadataVars, corpus, promptVars>>
    /\ UNCHANGED restVars

\* one call of retrieve_few_shot_examples(collection, complexity_gte, query_text, n)
Retrieve ==
    /\ \E complexity_gte \in GteValues, n \in 1..MaxN :
          /\ query' = [gte |-> complexity_gte, n |-> n]
          /\ \E ranked \in QueryResults(index, complexity_gte, n) :
                examples' = retrieve_few_shot_examples(index, ranked)
    /\ op' = "retrieve"
    /\ UNCHANGED <<scriptVars, validatorVars, metadataVars, corpus, index, ingested,
                   promptVars>>
    /\ UNCHANGED restVars

NextIndex ==
    \/ EditCorpus
    \/ Ingest
    \/ Retrieve
SpecIndex == InitIndex /\ [][NextIndex]_vars

\* ------------------------------------------------------ the prompt alone
\* json.dumps(taxonomy, indent=2) of a dict given as its <<key, value>> items in
\* insertion order, the indentation left out
RECURSIVE dumps_members(_)
dumps_members(pairs) ==
    IF pairs = <<>> THEN <<>>
    ELSE <<"quote", Head(pairs)[1], "quote", ":", "quote", Head(pairs)[2], "quote">>
         \o (IF Tail(pairs) = <<>> THEN <<>> ELSE <<",">> \o dumps_members(Tail(pairs)))
dumps_dict(pairs) == <<"{">> \o dumps_members(pairs) \o <<"}">>

\* json.dumps(few_shot_examples, indent=2)
RECURSIVE dumps_cases(_)
dumps_cases(cases) ==
    IF cases = <<>> THEN <<>>
    ELSE SeedText[Head(cases)]
         \o (IF Tail(cases) = <<>> THEN <<>> ELSE <<",">> \o dumps_cases(Tail(cases)))
dumps_list(cases) == <<"[">> \o dumps_cases(cases) \o <<"]">>

\* the f-string of build_prompt
prompt_text(friction_taxonomy, action_taxonomy, outcome_taxonomy, few_shot_examples, target_patient, target_friction) ==
    <<"nl", "=== STATIC TAXONOMIES ===", "nl", "nl", "--- Friction Taxonomy ---", "nl">>
    \o dumps_dict(friction_taxonomy)
    \o <<"nl", "nl", "--- Action Taxonomy ---", "nl">>
    \o dumps_dict(action_taxonomy)
    \o <<"nl", "nl", "--- Outcome Taxonomy ---", "nl">>
    \o dumps_dict(outcome_taxonomy)
    \o <<"nl", "nl", "=== FEW-SHOT REFERENCE CASES ===", "nl", "nl", "Here are ">>
    \o Digits(Len(few_shot_examples))
    \o <<" real-world seed cases.", "nl", "nl">>
    \o dumps_list(few_shot_examples)
    \o <<"nl", "nl", "=== TASK ===", "nl", "nl", "- Patient: ", target_patient, "nl",
         "- Main Friction: ", target_friction, "nl", "nl", "schema_str", "nl", "nl",
         "Rules:", "nl">>

\* build_prompt with a few_shot_examples list that keeps the cases of the call
\* before
build_prompt_accumulating(friction_taxonomy, action_taxonomy, outcome_taxonomy, few_shot_examples, target_patient, target_friction) ==
    strip(prompt_text(friction_taxonomy, action_taxonomy, outcome_taxonomy,
                      given.few_shot_examples \o few_shot_examples, target_patient,
                      target_friction))

\* build_prompt(...)
build_prompt(friction_taxonomy, action_taxonomy, outcome_taxonomy, few_shot_examples, target_patient, target_friction) ==
    strip(prompt_text(friction_taxonomy, action_taxonomy, outcome_taxonomy,
                      few_shot_examples, target_patient, target_friction))

\* the taxonomies on disk, the exemplar lists a retrieval returns, the targets
FrictionTaxonomies ==
    {<<<<"Managed Medicare Auth", "+30 Days">>, <<"Weekend Coverage Gap", "+2 Days">>>>,
     <<<<"Weekend Coverage Gap", "+2 Days">>, <<"Managed Medicare Auth", "+30 Days">>>>}
ActionTaxonomies == {<<<<"Escalate", "Rank 1">>>>}
OutcomeTaxonomies == {<<<<"Home", "Discharged">>>>}
ExampleLists == UNION {[1..m -> {SeedA, SeedB}] : m \in 0..MaxN}
Targets ==
    {<<"78yo Female, CHF", "Managed Medicare Auth">>,
     <<"88yo Male, Bilateral TKA", "Weekend Coverage Gap">>}
Arguments ==
    {[friction_taxonomy |-> ft, action_taxonomy |-> at, outcome_taxonomy |-> ot,
      few_shot_examples |-> ex, target_patient |-> tg[1], target_friction |-> tg[2]] :
        ft \in FrictionTaxonomies, at \in ActionTaxonomies, ot \in OutcomeTaxonomies,
        ex \in ExampleLists, tg \in Targets}

InitPrompt ==
    /\ ScriptsIdle
    /\ ValidatorIdle
    /\ MetadataIdle
    /\ IndexIdle
    /\ PromptIdle
    /\ RestIdle

\* user_prompt = build_prompt(...)
BuildPrompt ==
    /\ \E a \in Arguments :
          /\ given' = a
          /\ prompt' = build_prompt(a.friction_taxonomy, a.action_taxonomy,
                                     a.outcome_taxonomy, a.few_shot_examples,
                                     a.target_patient, a.target_friction)
    /\ earlier' = given
    /\ earlierPrompt' = prompt
    /\ UNCHANGED <<scriptVars, validatorVars, metadataVars, indexVars>>
    /\ UNCHANGED restVars

SpecPrompt == InitPrompt /\ [][BuildPrompt]_vars

\* ------------------------------------------------------ the annotation app
\* streamlit_app.main with the modules of its four pages loaded, each browser
\* session running the script in a thread of its own on the one cached client
Sessions == {"s1", "s2"}

\* the registered users and the role of each one's profiles row
Users == {"ann", "bob"}
ProfileRole(u) == IF u = "ann" THEN "navigator" ELSE "admin"

\* st.session_state of a browser session after its first script run; "none" is
\* a key that is not set
NewSession ==
    [access_token |-> "none", refresh_token |-> "none", user_id |-> "none",
     role |-> "none", full_name |-> "none", authenticated |-> FALSE,
     current_page |-> "login", current_session_id |-> "none",
     current_case_id |-> "none", admin_unlocked |-> FALSE]

\* is_authenticated() and get_role()
is_authenticated(ss) == ss.authenticated
get_role(ss) == IF ss.role = "none" THEN "" ELSE ss.role

\* _require_auth without the role test
require_auth_any_role(ss, role) == ~is_authenticated(ss)

\* _require_auth(role): TRUE when the page is blocked
require_auth(ss, role) ==
    IF ~is_authenticated(ss) THEN TRUE
    ELSE IF role # "" /\ get_role(ss) # role THEN TRUE
    ELSE FALSE

\* sign_in(full_name, pin) of user u on the session state ss and the client cl:
\* the password check, the three token keys, set_session, the profile lookup
sign_in(ss, cl, u, password_ok, profile_ok) ==
    IF ~password_ok THEN [session |-> ss, client |-> cl, success |-> FALSE]
    ELSE LET tokens == [ss EXCEPT !.access_token = u, !.refresh_token = u, !.user_id = u]
         IN  IF ~profile_ok THEN [session |-> tokens, client |-> u, success |-> FALSE]
             ELSE [session |-> [tokens EXCEPT !.role = ProfileRole(u), !.full_name = u,
                                              !.authenticated = TRUE],
                   client |-> u, success |-> TRUE]

\* sign_out(): the nine keys popped from the session state
sign_out(ss) ==
    [ss EXCEPT !.access_token = "none", !.refresh_token = "none", !.user_id = "none",
               !.role = "none", !.full_name = "none", !.authenticated = FALSE,
               !.current_page = "none", !.current_session_id = "none",
               !.current_case_id = "none"]

\* get_authenticated_client(): the tokens the shared client holds afterwards
get_authenticated_client(ss, cl) ==
    IF ss.access_token # "none" /\ ss.refresh_token # "none" THEN ss.access_token ELSE cl

\* main(): the page body one script run ends on, the session state it leaves and
\* whether that body took the client from get_authenticated_client; an annotation
\* page without an evaluation session sends the run on to the dashboard
main(ss) ==
    LET page == ss.current_page IN
    IF page = "admin_dashboard"
    THEN [session |-> ss, db |-> FALSE,
          shown |-> IF ss.admin_unlocked THEN "admin_contents" ELSE "admin_form"]
    ELSE IF page = "pn_dashboard"
    THEN IF require_auth(ss, "navigator")
         THEN [session |-> ss, db |-> FALSE, shown |-> "blocked"]
         ELSE [session |-> ss, db |-> TRUE, shown |-> "pn_dashboard"]
    ELSE IF page = "annotation"
    THEN IF require_auth(ss, "navigator")
         THEN [session |-> ss, db |-> FALSE, shown |-> "blocked"]
         ELSE IF ss.current_session_id = "none" \/ ss.current_case_id = "none"
         THEN [session |-> [ss EXCEPT !.current_page = "pn_dashboard"], db |-> TRUE,
               shown |-> "pn_dashboard"]
         ELSE [session |-> ss, db |-> TRUE, shown |-> "annotation"]
    ELSE [session |-> IF page = "none" THEN [ss EXCEPT !.current_page = "login"] ELSE ss,
          db |-> FALSE,
          shown |-> IF is_authenticated(ss) THEN "login_done" ELSE "login_form"]

InitUI ==
    /\ ScriptsIdle
    /\ ValidatorIdle
    /\ MetadataIdle
    /\ IndexIdle
    /\ PromptIdle
    /\ UploadIdle
    /\ SaveIdle
    /\ session = [s \in Sessions |-> NewSession]
    /\ client = "none"
    /\ shown = [s \in Sessions |-> "login_form"]
    /\ pending = [s \in Sessions |-> FALSE]
    /\ under = [s \in Sessions |-> "nocall"]
    /\ result = [s \in Sessions |-> "none"]

\* the script run that follows an interaction of browser session s: the handler
\* left the session state ss and the client cl and reported did
Rerun(s, ss, cl, did) ==
    LET run_ == main(ss) IN
    /\ session' = [session EXCEPT ![s] = run_.session]
    /\ shown' = [shown EXCEPT ![s] = run_.shown]
    /\ client' = IF run_.db THEN get_authenticated_client(run_.session, cl) ELSE cl
    /\ pending' = [pending EXCEPT ![s] = run_.db]
    /\ under' = [under EXCEPT ![s] = "nocall"]
    /\ result' = [result EXCEPT ![s] = did]
    /\ UNCHANGED <<scriptVars, validatorVars, metadataVars, indexVars, promptVars,
                   uploadVars, saveVars>>

\* render_sidebar: one of the navigation buttons, or the annotation page's button
\* back to the dashboard
Navigate(s) ==
    /\ ~pending[s]
    /\ \E target \in {"login", "admin_dashboard", "pn_dashboard", "annotation"} :
          /\ target = "annotation" => session[s].current_session_id # "none"
          /\ Rerun(s, [session[s] EXCEPT !.current_page = target], client, "navigated")

\* login.render: the Sign In form submitted with a name and a 4-digit PIN
SubmitSignIn(s) ==
    /\ ~pending[s]
    /\ shown[s] = "login_form"
    /\ \E u \in Users, password_ok \in BOOLEAN, profile_ok \in BOOLEAN :
          LET r == sign_in(session[s], client, u, password_ok, profile_ok) IN
          Rerun(s, r.session, r.client, IF r.success THEN "signed_in" ELSE "sign_in_failed")

\* render_sidebar: Logout
Logout(s) ==
    /\ ~pending[s]
    /\ is_authenticated(session[s])
    /\ Rerun(s, [sign_out(session[s]) EXCEPT !.current_page = "login"], "none",
             "signed_out")

\* admin_dashboard.render: the password form submitted
Unlock(s) ==
    /\ ~pending[s]
    /\ shown[s] = "admin_form"
    /\ \E correct \in BOOLEAN :
          Rerun(s, [session[s] EXCEPT !.admin_unlocked = (@ \/ correct)], client,
                IF correct THEN "unlocked" ELSE "wrong_password")

\* pn_dashboard.render: Start or Resume on a case
OpenCase(s) ==
    /\ ~pending[s]
    /\ shown[s] = "pn_dashboard"
    /\ Rerun(s, [session[s] EXCEPT !.current_session_id = "e1", !.current_case_id = "c1",
                                   !.current_page = "annotation"], client, "opened")

\* the .execute() calls of the page body, on the client as it is by then
Execute(s) ==
    /\ pending[s]
    /\ under' = [under EXCEPT ![s] = client]
    /\ pending' = [pending EXCEPT ![s] = FALSE]
    /\ UNCHANGED <<session, client, shown, result>>
    /\ UNCHANGED <<scriptVars, validatorVars, metadataVars, indexVars, promptVars,
                   uploadVars, saveVars>>

NextUI ==
    \E s \in Sessions :
        \/ Navigate(s)
        \/ SubmitSignIn(s)
        \/ Logout(s)
        \/ Unlock(s)
        \/ OpenCase(s)
        \/ Execute(s)
SpecUI == InitUI /\ [][NextUI]_vars

\* ------------------------------------------------- saving the answers
EvalTables == {"eval_format_1_timeline", "eval_format_2_tactics", "eval_format_3_boundaries"}

\* what a selector or slider of the annotation form can be set to, two values
\* standing for each widget's options
AnswerValues == {"first", "second"}

\* the input lists render builds for a case part with n items: one entry per item,
\* its index and the widget's value
InputsOfLength(n) == {[k \in 1..n |-> [index |-> k - 1, answer |-> pick[k]]] :
                         pick \in [1..n -> AnswerValues]}

\* _save_answers(client, session_id, f1_inputs, f2_inputs, f3_inputs) on the rows
\* tabs of the session: three deletes, then an insert for every list that is not
\* empty; raises_at is the .execute() call that raises (0: none does), counted
\* over the six calls in the order of the code, and a call that raises changes no row
save_answers(tabs, inputs, raises_at) ==
    LET order == <<"eval_format_1_timeline", "eval_format_2_tactics",
                   "eval_format_3_boundaries">>
        place(t) == CHOOSE k \in 1..3 : order[k] = t
        \* the insert into a table is called only for a list that is not empty
        raised == /\ raises_at # 0
                  /\ raises_at > 3 => inputs[order[raises_at - 3]] # <<>>
        executed(k) == ~raised \/ k < raises_at
    IN  [t \in EvalTables |->
            IF executed(place(t) + 3) /\ inputs[t] # <<>> THEN inputs[t]
            ELSE IF executed(place(t)) THEN <<>>
            ELSE tabs[t]]

InitSave ==
    /\ ScriptsIdle
    /\ ValidatorIdle
    /\ MetadataIdle
    /\ IndexIdle
    /\ PromptIdle
    /\ UploadIdle
    /\ UIIdle
    /\ shape \in [EvalTables -> 0..MaxAnswers]
    /\ tables = [t \in EvalTables |-> <<>>]
    /\ before = [t \in EvalTables |-> <<>>]
    /\ call = <<>>

\* annotation.render reaching its auto-save: _save_answers with the lists built
\* from the widgets
SaveAnswers ==
    /\ \E inputs \in [EvalTables -> UNION {InputsOfLength(n) : n \in 0..MaxAnswers}] :
          /\ \A t \in EvalTables : Len(inputs[t]) = shape[t]
          /\ call' = inputs
          /\ \E raises_at \in 0..6 : tables' = save_answers(tables, inputs, raises_at)
    /\ before' = tables
    /\ UNCHANGED shape
    /\ UNCHANGED <<scriptVars, validatorVars, metadataVars, indexVars, promptVars,
                   uploadVars, uiVars>>

SpecSave == InitSave /\ [][SaveAnswers]_vars

\* ------------------------------------------------------------------ claims
Batch == entry = "batch25"

\* C1: when every generator call for a case raises a rate-limit error, the batch
\* orchestrator makes exactly 3 calls for the case, then counts one failure for it
\* and stands after the attempt loop, on its way to the next case.
C1_RateLimitExhaustionCounted ==
    (Batch /\ rateOnly /\ calls > 0) =>
        /\ calls <= AttemptCap
        /\ (calls < AttemptCap => pc = "attempt")
        /\ (calls = AttemptCap =>
                /\ pc \in {"between", "loop", "done"}
                /\ status = "exhausted"
                /\ lastCounted = 1)

\* C2: every case whose 3 attempts all end without success adds exactly one to
\* failures, so the end-of-run report has successes + failures = cases processed.
C2_EveryExhaustedCaseCounted ==
    /\ (Batch /\ status = "exhausted") => lastCounted = 1
    /\ (Batch /\ pc = "done") => successes + failures = count

\* a file holding a validated record: it passes the schema and is a model dump
HoldsValidatedRecord(f) == model_validate(f.doc).ok /\ f.doc.keys = RequiredFields

\* a response text without its fences and surrounding whitespace
Unfenced(text) ==
    strip(removesuffix(removeprefix(removeprefix(strip(text), FenceJson), Fence), Fence))

\* the file a run leaves for a response text that parses and validates
FileFor(text) == FileOf(run, model_dump(json_loads(Unfenced(text)).doc))

\* a step that changes a file is taken on a response that parses and validates,
\* and leaves in the file the model dump of that response
WrittenFromValidatedResponse ==
    (batchDir' # batchDir \/ outDir' # outDir) =>
        /\ lastOut'.kind = "text"
        /\ json_loads(Unfenced(lastOut'.body)).ok
        /\ model_validate(json_loads(Unfenced(lastOut'.body)).doc).ok
        /\ \A c \in DOMAIN batchDir :
              batchDir'[c] # batchDir[c] =>
                  /\ batchDir'[c] = FileFor(lastOut'.body)
                  /\ HoldsValidatedRecord(batchDir'[c])
        /\ \A n \in DOMAIN outDir :
              outDir'[n] # outDir[n] =>
                  /\ outDir'[n] = FileFor(lastOut'.body)
                  /\ HoldsValidatedRecord(outDir'[n])

\* C3: in both entry points a file is written only by an attempt whose response
\* parsed as JSON and passed SyntheticCaseOutput validation, and what is written is
\* a validated record; the directories start empty, so every file on disk holds a
\* validated record in every reachable state.
C3_OnlyValidatedOutputPersisted == [][WrittenFromValidatedResponse]_vars

C3_Witness ==
    /\ Batch
    /\ \E c \in DOMAIN batchDir : batchDir[c].run = run
    /\ lastCause = "validation"

\* C4: no case of the batch gets more than 3 generator calls, and after a case
\* has succeeded no further generator call is made for it.
C4_AttemptCapAndStopOnSuccess ==
    [][/\ Batch => calls' <= AttemptCap
       /\ (Batch /\ status = "succeeded") => calls' <= calls]_vars

C4_Witness == Batch /\ status = "succeeded" /\ calls = AttemptCap /\ pc = "loop"

\* C5: no error raised while a case is processed aborts the run: the loop goes on
\* to the next case and the run ends with its report.
C5_NoErrorAbortsRun == pc # "aborted"

\* C6: a later run never writes under a file name an earlier run used: no file an
\* earlier run wrote is overwritten.
C6_NoEarlierOutputOverwritten ==
    [][/\ \A c \in DOMAIN batchDir :
              batchDir[c].run \notin {0, run} => batchDir'[c] = batchDir[c]
       /\ \A n \in DOMAIN outDir :
              outDir[n].run \notin {0, run} => outDir'[n] = outDir[n]]_vars

\* C7: at the end of a batch run, a case that ended in terminal failure has no
\* output file for its case number on disk.
C7_FailedCaseLeavesNoFile ==
    (Batch /\ pc = "done") => \A c \in failed : batchDir[c].run = 0

\* C8: an attempt that fails in json.loads or in model_validate is handled as a
\* transient error (5 seconds then retry; counted as a failure on the third
\* attempt), never as a rate-limit error.
C8_ParseAndValidationErrorsTransient ==
    (Batch /\ lastCause \in {"parse", "validation"}) =>
        /\ lastClass = "other"
        /\ (calls < AttemptCap => lastWait = 5 /\ pc = "attempt")
        /\ (calls = AttemptCap => lastCounted = 1)

Retried == pc' = "attempt" /\ i' = i /\ attempt' = attempt + 1

FencedValid ==
    { lead \o open \o <<"nl", v, "nl">> \o Fence \o trail :
          lead \in {<<>>, <<"nl">>}, open \in {Fence, FenceJson},
          v \in {"V1", "Vx"}, trail \in {<<>>, <<"nl">>} }

\* the record of the object in a fenced response: its declared fields
FencedRecord(text) == [JsonDoc(text[CHOOSE k \in 1..Len(text) : text[k] \in JsonObjects])
                          EXCEPT !.keys = RequiredFields]

\* C10: a first response that is a schema-valid JSON object in markdown fences is
\* stripped, validated and persisted in exactly 1 attempt: the case adds 1 to
\* successes and 0 to failures and no retry follows; generate_synthetic saves the
\* same record from its one generator call.
C10_FencedResponseSucceedsFirstTry ==
    [][/\ (Batch /\ pc = "attempt" /\ attempt = 0 /\ lastOut'.body \in FencedValid) =>
             /\ calls' = 1
             /\ successes' = successes + 1
             /\ failures' = failures
             /\ status' = "succeeded"
             /\ pc' = "between"
             /\ batchDir'[i + 1] = FileOf(run, FencedRecord(lastOut'.body))
       /\ (~Batch /\ pc = "loop" /\ calls' = calls + 1 /\ lastOut'.body \in FencedValid) =>
             /\ pc' = "loop"
             /\ i' = i + 1
             /\ outDir'[<<now', i + 1>>] = FileOf(run, FencedRecord(lastOut'.body))]_vars

C10_Witness ==
    /\ Batch
    /\ pc = "between"
    /\ calls = 1
    /\ status = "succeeded"
    /\ lastOut.body \in FencedValid
    /\ lastOut.body[4] = "json"

\* C11: in a run whose environment has no GEMINI_API_KEY, either entry point stops
\* at startup: no exemplar is retrieved, the generator is not called and no file
\* is written by that run
C11_NoCredentialNoGeneration ==
    ~credential =>
        /\ retrievals = 0
        /\ calls = 0
        /\ \A c \in 1..BatchCases : batchDir[c].run # run
        /\ \A n \in OutNames : outDir[n].run # run

Validated == verdict # NotValidated

\* C12: the validator rejects every record whose format_3_rl_scenario does not have
\* exactly 3 entries
C12_ExactlyThreeOptions ==
    Validated /\ Len(record.rl) # 3 => ~verdict.ok

\* C13: the validator rejects every record with an empty format_1_state_log, an
\* empty format_2_triples or an empty narrative_summary
C13_NonEmptySequencesAndSummary ==
    Validated /\ (record.log = <<>> \/ record.triples = 0 \/ record.narrative = <<>>)
        => ~verdict.ok

\* every Literal field of the record holds a value of its declared set
AllInEnum(r) ==
    /\ \A k \in 1..Len(r.log) :
          /\ r.log[k].clinical_impact \in {Improves, Worsens, Unchanged}
          /\ r.log[k].environmental_impact \in {Improves, Worsens, Unchanged}
          /\ r.log[k].service_adoption_impact \in {Positive, Negative, Unchanged}
    /\ \A k \in 1..Len(r.rl) : r.rl[k] \in {Passive, Proactive, Overstep}

\* C14: the validator rejects a record that lacks one of the four top-level fields
\* and a record with an impact or category outside its declared set (the
\* annotation form's Unclear included), and accepts a record with all fields
\* present and every such value inside its set
C14_FieldsPresentAndInEnum ==
    Validated =>
        (verdict.ok <=> (RequiredFields \subseteq record.keys /\ AllInEnum(record)))

C14_Witness ==
    /\ Validated
    /\ ~verdict.ok
    /\ record.keys = RequiredFields
    /\ \E k \in 1..Len(record.log) :
          /\ record.log[k].service_adoption_impact = Improves
          /\ record.log[k].clinical_impact \in ClinicalImpacts

\* C19: every value of the metadata record build_metadata_dict returns is an int,
\* a float or a string, complexity_score is an int and has_skilled_need is Yes or
\* No, whatever modification_type holds
C19_MetadataValuesScalar ==
    metadata # NoMetadata =>
        /\ \A key \in DOMAIN metadata : metadata[key].t \in {"int", "float", "str"}
        /\ metadata.complexity_score.t = "int"
        /\ metadata.has_skilled_need \in {JStr(Yes), JStr(No)}

\* the entries the collection holds, whatever their id
Stored == UNION {{index[id][k] : k \in 1..Len(index[id])} : id \in DOMAIN index}

\* C15: a retrieval returns at most n payloads, each the payload of a stored entry
\* whose complexity_score is at least complexity_gte, and returns the empty list
\* when the threshold is above every stored complexity_score
C15_RetrievalFiltered ==
    op = "retrieve" =>
        /\ Len(examples) <= query.n
        /\ \A k \in 1..Len(examples) :
              \E stored \in Stored :
                 /\ stored.metadata.complexity_score.n >= query.gte
                 /\ stored.metadata.raw_json.s = SeedText[examples[k]]
        /\ (\A stored \in Stored : stored.metadata.complexity_score.n < query.gte)
               => examples = <<>>

C15_Witness ==
    /\ op = "retrieve"
    /\ query = [gte |-> 4, n |-> 1]
    /\ Len(examples) = 1
    /\ index[S1] # <<>>
    /\ index[S2] # <<>>
    /\ \A stored \in Stored : stored.metadata.complexity_score.n >= 4

\* the seed directory holds the one case S1 (complexity 5) and the collection holds
\* what one completed ingest of it left in an empty collection
OnlyS1Ingested ==
    /\ ingested = "done"
    /\ corpus = [f \in 1..MaxFiles |-> IF f = 1 THEN json_dumps(SeedA) ELSE NoFile]
    /\ \A id \in DOMAIN index \ {S1} : index[id] = <<>>

\* C16: after ingest has indexed the seed case S1 of complexity 5, retrieval with
\* minimum complexity 4 and n = 2 returns exactly the S1 document, and retrieval
\* with minimum complexity 6 and n = 2 returns the empty list
C16_IngestRetrieveRoundTrip ==
    [][(op = "ingest" /\ OnlyS1Ingested /\ op' = "retrieve" /\ query'.n = 2) =>
          /\ query'.gte = 4 => examples' = <<SeedA>>
          /\ query'.gte = 6 => examples' = <<>>]_vars

C16_Witness ==
    /\ op = "retrieve"
    /\ OnlyS1Ingested
    /\ query = [gte |-> 4, n |-> 2]
    /\ examples = <<SeedA>>

\* C17: the collection never holds two entries under one case identifier; an
\* ingest run that completes leaves, for every case of the corpus, the one entry
\* of its current version; a second run on the unchanged corpus changes nothing
C17_UpsertIdempotent ==
    [][/\ \A id \in DOMAIN index' : Len(index'[id]) <= 1
       /\ (op' = "ingest" /\ ingested' = "done") =>
             \A f \in 1..MaxFiles :
                corpus[f] # NoFile =>
                   \E id \in DOMAIN index' :
                      /\ id = case_id(json_load(corpus[f]).data, f)
                      /\ Len(index'[id]) = 1
                      /\ index'[id][1].metadata.raw_json.s = corpus[f]
       /\ (op = "ingest" /\ op' = "ingest") => index' = index]_vars

C17_Witness ==
    /\ op = "ingest"
    /\ ingested = "done"
    /\ corpus[1] = json_dumps(SeedA2)
    /\ corpus[2] = NoFile
    /\ index[S1] = <<EntryOf(SeedA2)>>
    /\ index[S2] = <<EntryOf(SeedB)>>

\* C18: an ingest run over a corpus with a malformed file is not aborted and
\* upserts every well-formed case of that corpus
C18_MalformedFileSkipped ==
    (op = "ingest" /\ \E f \in 1..MaxFiles : corpus[f] # NoFile /\ ~json_load(corpus[f]).ok)
        => /\ ingested # "aborted"
           /\ \A g \in 1..MaxFiles :
                 (corpus[g] # NoFile /\ json_load(corpus[g]).ok) =>
                    \E stored \in Stored : stored.metadata.raw_json.s = corpus[g]

C22_NoBackoffAfterFinalAttempt ==
    (Batch /\ pc = "between" /\ status = "exhausted") => lastWait = 0

\* the stored entries the filter lets through whose payload deserializes
ValidMatching(idx, complexity_gte) ==
    {place \in Matching(idx, complexity_gte) :
        LET raw_json == get(idx[place[1]][place[2]].metadata.raw_json, JStr(<<>>)) IN
        truthy(raw_json) /\ json_load(raw_json.s).ok}

\* C23: a retrieval that asks for n exemplars while at least n stored entries with
\* a deserializable payload pass the complexity filter returns exactly n payloads:
\* an entry with an empty or undeserializable payload never takes the place of a
\* valid one.
C23_ExactlyNWhenEnoughValid ==
    (op = "retrieve" /\ Cardinality(ValidMatching(index, query.gte)) >= query.n)
        => Len(examples) = query.n

\* C24: every row upload_cases.main builds from a file case_NN.json of the batch
\* directory is labelled Case_N with the same number N, also when the files of
\* failed cases are missing from the directory.
C24_LabelMatchesFileNumber ==
    \A k \in 1..Len(rows) :
        \E n \in 1..BatchCases : rows[k].file = out_path(n) /\ rows[k].label = label(n)

NavigatorPages == {"pn_dashboard", "annotation"}

\* C21: a script run renders the navigator dashboard or the annotation page only
\* for a session that is authenticated with the role navigator; sign_out leaves the
\* session unauthenticated with neither page rendered, and a session becomes
\* authenticated by a successful sign_in only.
C21_NavigatorPagesGuarded ==
    [][\A s \in Sessions :
          /\ shown'[s] \in NavigatorPages =>
                is_authenticated(session'[s]) /\ get_role(session'[s]) = "navigator"
          /\ result'[s] = "signed_out" =>
                ~is_authenticated(session'[s]) /\ shown'[s] \notin NavigatorPages
          /\ (~is_authenticated(session[s]) /\ is_authenticated(session'[s])) =>
                result'[s] = "signed_in"]_vars

C21_Witness ==
    \E s, t \in Sessions :
        /\ shown[s] = "annotation"
        /\ session[s].role = "navigator"
        /\ result[t] = "signed_out"
        /\ session[t].role = "none"
        /\ shown[t] = "login_form"

\* C25: a sign_in that returns success=False leaves access_token, refresh_token,
\* user_id, role, full_name and authenticated of the session state as they were.
C25_FailedSignInLeavesSessionUnchanged ==
    [][\A s \in Sessions :
          result'[s] = "sign_in_failed" =>
              /\ session'[s].access_token = session[s].access_token
              /\ session'[s].refresh_token = session[s].refresh_token
              /\ session'[s].user_id = session[s].user_id
              /\ session'[s].role = session[s].role
              /\ session'[s].full_name = session[s].full_name
              /\ session'[s].authenticated = session[s].authenticated]_vars

\* C26: the queries a page executes through the client it got from
\* get_authenticated_client run under the tokens of the page's own session, or
\* under no user session when that session holds no tokens.
C26_QueriesUnderOwnTokens ==
    \A s \in Sessions : under[s] # "nocall" => under[s] = session[s].access_token

\* C28: sign_out clears the admin_unlocked flag, and the script run that follows
\* a signed-out session's next interaction does not render the admin dashboard
\* contents.
C28_SignOutRevokesAdminUnlock ==
    [][\A s \in Sessions :
          /\ result'[s] = "signed_out" => ~session'[s].admin_unlocked
          /\ result[s] = "signed_out" => shown'[s] # "admin_contents"]_vars

\* C27: after a call of _save_answers, completed or cut short by a step that
\* raised, each of the three tables holds for the session either the rows it held
\* before the call or the rows of the call's input list, whole.
C27_SaveKeepsOldOrNew ==
    call # <<>> => \A t \in EvalTables : tables[t] \in {before[t], call[t]}
====
